---- MODULE Spec2Model ----
(***************************************************************************)
(* Model of the Mellanox sonic-platform crate: the FanStatus and           *)
(* TemperatureStatus trackers with the process-wide BAD_FAN_COUNT          *)
(* (fan.rs, thermal.rs), the MlnxThermal sensor (thermal.rs) and the       *)
(* hwmon discovery of MlnxChassis (chassis.rs).                            *)
(*                                                                         *)
(* Numbers.  BAD_FAN_COUNT is an AtomicU32; it is kept as two 16-bit       *)
(* halves [hi, lo] so that fetch_add / fetch_sub wrap modulo 2^32 exactly  *)
(* as the hardware does.  An f32 temperature is kept as an integer count   *)
(* of 2^-20 degrees C: every f32 of magnitude in [8, 1024) is such a count, *)
(* and so are 0, 0.1-band differences of such values and the constants     *)
(* -999.0, 10.0, 1000.0 and -1000.0.                                       *)
(***************************************************************************)
EXTENDS Integers, Sequences, FiniteSets, TLC

\* ------------------------------------------------------------------ bounds

\* Number of FanStatus trackers polled by the control loop.
NumTrackers == 2

\* A tracker is replaced by a fresh one only while the counter is below this.
MaxCount == 2

\* Number of set_presence calls each polling thread makes.
MaxCalls == 3

\* Number of get_temperature calls made on the thermal sensor.
MaxReads == 3

\* Number of directories under /sys/class/hwmon.
MaxDirs == 2

\* Largest channel number looked for in a listing.
MaxIndex == 12

\* ------------------------------------------------------------- u32 counter

Half == 65536

U32(n) == [hi |-> n \div Half, lo |-> n % Half]

\* AtomicU32::fetch_add(1): wrapping addition modulo 2^32.
fetch_add(c, n) ==
    LET s == c.lo + n
    IN  [hi |-> (c.hi + s \div Half) % Half, lo |-> s % Half]

\* AtomicU32::fetch_sub(1): wrapping subtraction modulo 2^32.
fetch_sub(c, n) ==
    LET s == c.lo - n
    IN  IF s >= 0 THEN [hi |-> c.hi, lo |-> s]
                  ELSE [hi |-> (c.hi + Half - 1) % Half, lo |-> s + Half]

\* Comparison of a u32 with a small natural number.
U32Le(c, n) == c.hi = 0 /\ c.lo <= n

\* ---------------------------------------------------------------- f32 grid

\* One degree C in grid units (2^20).
F32One == 1048576

Abs(x) == IF x < 0 THEN -x ELSE x

\* log2 of the f32 spacing, in grid units, at integer part q (8 <= q < 1024):
\* the spacing of f32 in [2^k, 2^(k+1)) is 2^(k-23) degrees = 2^(k-3) units.
RECURSIVE Shift(_)
Shift(q) == IF q < 16 THEN 0 ELSE 1 + Shift(q \div 2)

RECURSIVE Pow2(_)
Pow2(n) == IF n = 0 THEN 1 ELSE 2 * Pow2(n - 1)

\* |m| / 1000 rounded to the nearest f32 (no ties occur: 125 is odd), for a
\* magnitude m of at least 8000 millidegrees.
F32Magnitude(m) ==
    LET q == m \div 1000
        r == m % 1000
        p == Pow2(Shift(q))
    IN  (q * (F32One \div p) + (2 * r * (131072 \div p) + 125) \div 250) * p

\* read_sysfs_temp: an i32 millidegree attribute converted with
\* `millidegrees as f32 / 1000.0`.
read_sysfs_temp(m) ==
    IF m = 0 THEN 0
    ELSE IF m < 0 THEN -F32Magnitude(-m) ELSE F32Magnitude(m)

\* 0.1f32 is 13421773 * 2^-27, strictly between 104857 and 104858 grid units:
\* a grid value x satisfies x > 0.1f32 iff x > TenthFloor, x < 0.1f32 iff
\* x <= TenthFloor.
TenthFloor == 104857

F32GtTenth(x) == x > TenthFloor
F32LtTenth(x) == x <= TenthFloor

NOT_AVAILABLE == -999 * F32One
TEMPERATURE_DIFF_THRESHOLD == 10 * F32One

\* Option<f32>
None == [some |-> FALSE, val |-> 0]
Some(x) == [some |-> TRUE, val |-> x]

\* ------------------------------------------------------------------ inputs

Trackers == 1 .. NumTrackers

\* Readings handed to a TemperatureStatus, as millidegree attributes read
\* through read_sysfs_temp, and the not-available sentinel.
StatusMillis == {45100, 45200, 56000, -998950}
StatusTemps == {read_sysfs_temp(m) : m \in StatusMillis} \cup {NOT_AVAILABLE}
StatusThresholds == {NOT_AVAILABLE, 40 * F32One, read_sysfs_temp(45200)}

VARIABLES
    fans,            \* FanStatus of each tracker
    BAD_FAN_COUNT,   \* static AtomicU32
    tstatus,         \* one TemperatureStatus
    last,            \* the last call made and what it returned
    thr,             \* the thread driving each tracker: where it is in set_presence
    thermal,         \* one MlnxThermal: its min_temp and max_temp fields
    hw,              \* the temp<N>_* attributes of that thermal's hwmon directory
    reads,           \* the temperatures get_temperature has returned so far
    tout,            \* the last Thermal method called and its result
    hwmon,           \* /sys/class/hwmon/hwmon*: the directories, in glob order
    cursor,          \* the directory discover_hwmon_devices handles next
    registry,        \* MlnxChassis: its fans and thermals vectors
    log,             \* per directory handled: the strategy run and the outcome
    chassis,         \* what MlnxChassis::new has returned, once it has
    mfan,            \* one MlnxFan: its fan_index and pwm_index
    fanhw,           \* the fan<N>_input and pwm<N> attributes of that fan
    fcall            \* the call in progress on that fan, or the last one made

statusVars == <<fans, BAD_FAN_COUNT, tstatus, last>>
threadVars == <<thr>>
thermalVars == <<thermal, hw, reads, tout>>
chassisVars == <<hwmon, cursor, registry, log, chassis>>
fanVars == <<mfan, fanhw, fcall>>

\* What neither the status trackers nor their threads touch.
sensorVars == <<thermalVars, chassisVars, fanVars>>

\* What the status trackers' methods do not touch.
nonStatus == <<threadVars, sensorVars>>

vars == <<statusVars, threadVars, thermalVars, chassisVars, fanVars>>

\* The record of a call: its name, the tracker, its arguments and result.
Call(op, id, flag, t, th, ret, warn) ==
    [op |-> op, id |-> id, flag |-> flag, temperature |-> t, threshold |-> th,
     ret |-> ret, warned |-> warn]

NoCall == Call("none", 0, FALSE, 0, 0, FALSE, FALSE)

\* ---------------------------------------------------------------- FanStatus

FanStatus_new ==
    [presence |-> TRUE, under_speed |-> FALSE, over_speed |-> FALSE,
     fault_status |-> TRUE]

TemperatureStatus_new ==
    [temperature |-> None, over_temperature |-> FALSE,
     under_temperature |-> FALSE]

\* A counter update that forgets the decrement branch.
CountAfter_NoDecrement(count, old, new) ==
    IF ~new THEN fetch_add(count, 1) ELSE count

\* The counter after a presence or fault-status flag moves from old to new.
CountAfter(count, old, new) ==
    IF ~new THEN fetch_add(count, 1)
    ELSE IF ~old THEN fetch_sub(count, 1)
    ELSE count

set_presence(i, presence) ==
    /\ IF fans[i].presence # presence
       THEN /\ BAD_FAN_COUNT' = CountAfter(BAD_FAN_COUNT, fans[i].presence, presence)
            /\ fans' = [fans EXCEPT ![i].presence = presence]
            /\ last' = Call("set_presence", i, presence, 0, 0, TRUE, FALSE)
       ELSE /\ UNCHANGED <<BAD_FAN_COUNT, fans>>
            /\ last' = Call("set_presence", i, presence, 0, 0, FALSE, FALSE)
    /\ UNCHANGED tstatus
    /\ UNCHANGED nonStatus

set_under_speed(i, under_speed) ==
    /\ IF fans[i].under_speed # under_speed
       THEN /\ fans' = [fans EXCEPT ![i].under_speed = under_speed]
            /\ last' = Call("set_under_speed", i, under_speed, 0, 0, TRUE, FALSE)
       ELSE /\ UNCHANGED fans
            /\ last' = Call("set_under_speed", i, under_speed, 0, 0, FALSE, FALSE)
    /\ UNCHANGED <<BAD_FAN_COUNT, tstatus>>
    /\ UNCHANGED nonStatus

set_over_speed(i, over_speed) ==
    /\ IF fans[i].over_speed # over_speed
       THEN /\ fans' = [fans EXCEPT ![i].over_speed = over_speed]
            /\ last' = Call("set_over_speed", i, over_speed, 0, 0, TRUE, FALSE)
       ELSE /\ UNCHANGED fans
            /\ last' = Call("set_over_speed", i, over_speed, 0, 0, FALSE, FALSE)
    /\ UNCHANGED <<BAD_FAN_COUNT, tstatus>>
    /\ UNCHANGED nonStatus

set_fault_status(i, fault_status) ==
    /\ IF fans[i].fault_status # fault_status
       THEN /\ BAD_FAN_COUNT' =
                   CountAfter(BAD_FAN_COUNT, fans[i].fault_status, fault_status)
            /\ fans' = [fans EXCEPT ![i].fault_status = fault_status]
            /\ last' = Call("set_fault_status", i, fault_status, 0, 0, TRUE, FALSE)
       ELSE /\ UNCHANGED <<BAD_FAN_COUNT, fans>>
            /\ last' = Call("set_fault_status", i, fault_status, 0, 0, FALSE, FALSE)
    /\ UNCHANGED tstatus
    /\ UNCHANGED nonStatus

is_ok(i) ==
    /\ fans[i].presence
    /\ ~fans[i].under_speed
    /\ ~fans[i].over_speed
    /\ fans[i].fault_status

get_bad_fan_count == BAD_FAN_COUNT

reset_fan_counter ==
    /\ BAD_FAN_COUNT' = U32(0)
    /\ last' = Call("reset_fan_counter", 0, FALSE, 0, 0, FALSE, FALSE)
    /\ UNCHANGED <<fans, tstatus>>
    /\ UNCHANGED nonStatus

\* A tracker is dropped and FanStatus::new() takes its place.
construct(i) ==
    /\ U32Le(BAD_FAN_COUNT, MaxCount - 1)
    /\ fans' = [fans EXCEPT ![i] = FanStatus_new]
    /\ last' = Call("new", i, FALSE, 0, 0, FALSE, FALSE)
    /\ UNCHANGED <<BAD_FAN_COUNT, tstatus>>
    /\ UNCHANGED nonStatus

\* ------------------------------------------- set_presence, one thread each
\* Thread t owns tracker t (&mut self) and shares BAD_FAN_COUNT; the only
\* shared access of set_presence is the SeqCst fetch_add / fetch_sub.

set_presence_enter(t, presence) ==
    /\ thr[t].pc = "idle"
    /\ thr[t].calls < MaxCalls
    /\ thr' = [thr EXCEPT ![t].pc = "compare", ![t].presence = presence,
                          ![t].calls = @ + 1]
    /\ UNCHANGED <<statusVars, sensorVars>>

\* if self.presence != presence { ... } else { false }
set_presence_compare(t) ==
    /\ thr[t].pc = "compare"
    /\ thr' = [thr EXCEPT ![t].pc =
                  IF fans[t].presence # thr[t].presence THEN "count" ELSE "idle"]
    /\ UNCHANGED <<statusVars, sensorVars>>

\* BAD_FAN_COUNT.fetch_add(1, SeqCst) or fetch_sub(1, SeqCst)
set_presence_count(t) ==
    /\ thr[t].pc = "count"
    /\ BAD_FAN_COUNT' = CountAfter(BAD_FAN_COUNT, fans[t].presence, thr[t].presence)
    /\ thr' = [thr EXCEPT ![t].pc = "store"]
    /\ UNCHANGED <<fans, tstatus, last, sensorVars>>

\* self.presence = presence; true
set_presence_store(t) ==
    /\ thr[t].pc = "store"
    /\ fans' = [fans EXCEPT ![t].presence = thr[t].presence]
    /\ thr' = [thr EXCEPT ![t].pc = "idle",
                          ![t].down = IF thr[t].presence THEN @ ELSE @ + 1,
                          ![t].up = IF thr[t].presence THEN @ + 1 ELSE @]
    /\ UNCHANGED <<BAD_FAN_COUNT, tstatus, last, sensorVars>>

\* -------------------------------------------------------- TemperatureStatus

\* The `diff > TEMPERATURE_DIFF_THRESHOLD` test that logs the warning.
ChangedTooFast(old, new_temp) ==
    old.some /\ Abs(new_temp - old.val) > TEMPERATURE_DIFF_THRESHOLD

\* A deadband that uses the rate-of-change threshold instead of 0.1.
TemperatureChanged_Coarse(old, new_temp) ==
    IF old.some THEN Abs(old.val - new_temp) > TEMPERATURE_DIFF_THRESHOLD ELSE TRUE

\* self.temperature.map_or(true, |t| (t - new_temp).abs() > 0.1)
TemperatureChanged(old, new_temp) ==
    IF old.some THEN F32GtTenth(Abs(old.val - new_temp)) ELSE TRUE

set_temperature(new_temp) ==
    /\ tstatus' = [tstatus EXCEPT !.temperature = Some(new_temp)]
    /\ last' = Call("set_temperature", 0, FALSE, new_temp, 0,
                    TemperatureChanged(tstatus.temperature, new_temp),
                    ChangedTooFast(tstatus.temperature, new_temp))
    /\ UNCHANGED <<fans, BAD_FAN_COUNT>>
    /\ UNCHANGED nonStatus

\* A sentinel test that looks at the reading only.
IsNotAvailable_ReadingOnly(temperature, threshold) ==
    F32LtTenth(Abs(temperature - NOT_AVAILABLE))

\* (temperature - NOT_AVAILABLE).abs() < 0.1 || (threshold - NOT_AVAILABLE).abs() < 0.1
IsNotAvailable(temperature, threshold) ==
    \/ F32LtTenth(Abs(temperature - NOT_AVAILABLE))
    \/ F32LtTenth(Abs(threshold - NOT_AVAILABLE))

\* An over-temperature test that also fires at the threshold itself.
OverThreshold_Inclusive(temperature, threshold) == temperature >= threshold

\* `temperature > threshold`
OverThreshold(temperature, threshold) == temperature > threshold

\* `temperature < threshold`
UnderThreshold(temperature, threshold) == temperature < threshold

set_over_temperature(temperature, threshold) ==
    /\ IF IsNotAvailable(temperature, threshold)
       THEN /\ UNCHANGED tstatus
            /\ last' = Call("set_over_temperature", 0, FALSE, temperature,
                            threshold, FALSE, FALSE)
       ELSE LET new_status == OverThreshold(temperature, threshold)
            IN  /\ tstatus' = [tstatus EXCEPT !.over_temperature = new_status]
                /\ last' = Call("set_over_temperature", 0, FALSE, temperature,
                                threshold,
                                tstatus.over_temperature # new_status, FALSE)
    /\ UNCHANGED <<fans, BAD_FAN_COUNT>>
    /\ UNCHANGED nonStatus

set_under_temperature(temperature, threshold) ==
    /\ IF IsNotAvailable(temperature, threshold)
       THEN /\ UNCHANGED tstatus
            /\ last' = Call("set_under_temperature", 0, FALSE, temperature,
                            threshold, FALSE, FALSE)
       ELSE LET new_status == UnderThreshold(temperature, threshold)
            IN  /\ tstatus' = [tstatus EXCEPT !.under_temperature = new_status]
                /\ last' = Call("set_under_temperature", 0, FALSE, temperature,
                                threshold,
                                tstatus.under_temperature # new_status, FALSE)
    /\ UNCHANGED <<fans, BAD_FAN_COUNT>>
    /\ UNCHANGED nonStatus

\* --------------------------------------------------------------- MlnxThermal

MlnxThermal_new == [min_temp |-> 1000 * F32One, max_temp |-> -1000 * F32One]

\* fn update_min_max(&mut self, temp): defined, and called from nowhere.
update_min_max(self, temp) ==
    [min_temp |-> IF temp < self.min_temp THEN temp ELSE self.min_temp,
     max_temp |-> IF temp > self.max_temp THEN temp ELSE self.max_temp]

Ok(x) == [ok |-> TRUE, val |-> x]
Err == [ok |-> FALSE, val |-> 0]

\* read_sysfs_temp on an attribute file that may be missing.
read_attr(attr) == IF attr.some THEN Ok(read_sysfs_temp(attr.val)) ELSE Err

Result(op, r) == [op |-> op, ok |-> r.ok, val |-> r.val]

\* fn get_temperature(&self): reads temp<N>_input and returns it.
get_temperature ==
    LET temp == read_attr(hw.input)
    IN  /\ Len(reads) < MaxReads
        /\ tout' = Result("get_temperature", temp)
        /\ reads' = IF temp.ok THEN Append(reads, temp.val) ELSE reads
        /\ UNCHANGED <<thermal, hw>>
        /\ UNCHANGED <<statusVars, threadVars, chassisVars, fanVars>>

get_minimum_recorded ==
    LET lowest == read_attr(hw.lowest)
    IN  /\ tout' = Result("get_minimum_recorded",
                          IF lowest.ok THEN lowest ELSE Ok(thermal.min_temp))
        /\ UNCHANGED <<thermal, hw, reads>>
        /\ UNCHANGED <<statusVars, threadVars, chassisVars, fanVars>>

get_maximum_recorded ==
    LET highest == read_attr(hw.highest)
    IN  /\ tout' = Result("get_maximum_recorded",
                          IF highest.ok THEN highest ELSE Ok(thermal.max_temp))
        /\ UNCHANGED <<thermal, hw, reads>>
        /\ UNCHANGED <<statusVars, threadVars, chassisVars, fanVars>>

\* The hardware changes the temperature attribute, or stops exposing it.
hw_update(attr) ==
    /\ hw.input # attr
    /\ hw' = [hw EXCEPT !.input = attr]
    /\ UNCHANGED <<thermal, reads, tout>>
    /\ UNCHANGED <<statusVars, threadVars, chassisVars, fanVars>>

\* --------------------------------------------------------------- MlnxChassis
\* A string is a sequence of one-character strings; a directory of
\* /sys/class/hwmon is the content of its `name` file (None: unreadable) and
\* its listing in the order read_dir yields it (None: it cannot be listed).

NoStr == [some |-> FALSE, val |-> <<>>]

starts_with(s, p) == Len(s) >= Len(p) /\ SubSeq(s, 1, Len(p)) = p

ends_with(s, p) == Len(s) >= Len(p) /\ SubSeq(s, Len(s) - Len(p) + 1, Len(s)) = p

strip_prefix(s, p) ==
    IF starts_with(s, p) THEN Some(SubSeq(s, Len(p) + 1, Len(s))) ELSE NoStr

strip_suffix(s, p) ==
    IF ends_with(s, p) THEN Some(SubSeq(s, 1, Len(s) - Len(p))) ELSE NoStr

\* str::contains with a string pattern, and with a char pattern.
contains(s, p) ==
    \E i \in 0 .. Len(s) - Len(p) : SubSeq(s, i + 1, i + Len(p)) = p

contains_char(s, c) == \E i \in 1 .. Len(s) : s[i] = c

Whitespace == {" ", "\n", "\t"}

RECURSIVE trim_start(_)
trim_start(s) ==
    IF s # <<>> /\ s[1] \in Whitespace THEN trim_start(Tail(s)) ELSE s

RECURSIVE trim_end(_)
trim_end(s) ==
    IF s # <<>> /\ s[Len(s)] \in Whitespace
    THEN trim_end(SubSeq(s, 1, Len(s) - 1)) ELSE s

trim(s) == trim_start(trim_end(s))

DecimalDigits == <<"0", "1", "2", "3", "4", "5", "6", "7", "8", "9">>

IsDigit(c) == \E d \in 1 .. 10 : DecimalDigits[d] = c

DigitValue(c) == (CHOOSE d \in 1 .. 10 : DecimalDigits[d] = c) - 1

RECURSIVE DigitsValue(_)
DigitsValue(s) ==
    IF s = <<>> THEN 0
    ELSE 10 * DigitsValue(SubSeq(s, 1, Len(s) - 1)) + DigitValue(s[Len(s)])

\* str::parse::<usize>: an optional '+', then one or more decimal digits
\* (indices stay far below usize::MAX, so the overflow error never arises).
parse_usize(s) ==
    LET digits == IF s # <<>> /\ s[1] = "+" THEN Tail(s) ELSE s
    IN  IF digits # <<>> /\ \A i \in 1 .. Len(digits) : IsDigit(digits[i])
        THEN Some(DigitsValue(digits))
        ELSE None

\* format!("{}", n) of a usize.
RECURSIVE to_string(_)
to_string(n) ==
    IF n < 10 THEN <<DecimalDigits[n + 1]>>
    ELSE to_string(n \div 10) \o <<DecimalDigits[(n % 10) + 1]>>

S_temp == <<"t", "e", "m", "p">>
S_fan == <<"f", "a", "n">>
S_pwm == <<"p", "w", "m">>
S_input == <<"_", "i", "n", "p", "u", "t">>
S_mlxsw == <<"m", "l", "x", "s", "w">>
S_Thermal == <<"T", "h", "e", "r", "m", "a", "l", " ">>
S_Fan == <<"F", "a", "n", " ">>
S_cooling == <<"c", "o", "o", "l", "i", "n", "g">>

\* strip_prefix(prefix).and_then(|s| s.strip_suffix(suffix)), then parse.
channel_index(filename, prefix, suffix) ==
    LET a == strip_prefix(filename, prefix)
        b == IF a.some THEN strip_suffix(a.val, suffix) ELSE NoStr
    IN  IF b.some THEN parse_usize(b.val) ELSE None

\* The branch of the if / else-if chain of discover_mlxsw_sensors a file takes.
mlxsw_branch(filename) ==
    IF starts_with(filename, S_temp) /\ ends_with(filename, S_input) THEN "temp"
    ELSE IF starts_with(filename, S_fan) /\ ends_with(filename, S_input) THEN "fan"
    ELSE IF starts_with(filename, S_pwm) /\ ~contains_char(filename, "_") THEN "pwm"
    ELSE "none"

mlxsw_index(filename, kind) ==
    CASE kind = "temp" -> channel_index(filename, S_temp, S_input)
      [] kind = "fan" -> channel_index(filename, S_fan, S_input)
      [] kind = "pwm" -> channel_index(filename, S_pwm, <<>>)

\* The indices pushed for `kind` while iterating the listing, in its order.
RECURSIVE mlxsw_indices(_, _)
mlxsw_indices(entries, kind) ==
    IF entries = <<>> THEN <<>>
    ELSE LET idx == IF mlxsw_branch(entries[1]) = kind
                    THEN mlxsw_index(entries[1], kind) ELSE None
         IN  (IF idx.some THEN <<idx.val>> ELSE <<>>)
                 \o mlxsw_indices(Tail(entries), kind)

\* The single `if` of discover_fans (prefix "fan") and of
\* discover_generic_sensors (prefix "temp").
RECURSIVE input_indices(_, _)
input_indices(entries, prefix) ==
    IF entries = <<>> THEN <<>>
    ELSE LET idx == IF starts_with(entries[1], prefix) /\ ends_with(entries[1], S_input)
                    THEN channel_index(entries[1], prefix, S_input) ELSE None
         IN  (IF idx.some THEN <<idx.val>> ELSE <<>>)
                 \o input_indices(Tail(entries), prefix)

\* Vec::sort_unstable
sort_unstable(indices) == SortSeq(indices, LAMBDA a, b : a < b)

\* A pairing by equal channel number instead of by position.
pwm_by_number(pwm_indices, i, fan_idx) ==
    IF \E j \in 1 .. Len(pwm_indices) : pwm_indices[j] = fan_idx
    THEN Some(fan_idx) ELSE None

\* pwm_indices.get(i).copied(), i counting from 1 here
pwm_at(pwm_indices, i, fan_idx) ==
    IF i <= Len(pwm_indices) THEN Some(pwm_indices[i]) ELSE None

MlnxThermal_at(name, hwmon_path, temp_index) ==
    [name |-> name, hwmon_path |-> hwmon_path, temp_index |-> temp_index,
     min_temp |-> MlnxThermal_new.min_temp, max_temp |-> MlnxThermal_new.max_temp]

MlnxFan_new(name, hwmon_path, fan_index, pwm_index) ==
    [name |-> name, hwmon_path |-> hwmon_path, fan_index |-> fan_index,
     pwm_index |-> pwm_index]

\* Each discover_* returns the registry it leaves; the listing is known good.
discover_mlxsw_sensors(reg, hwmon_path, entries) ==
    LET temp_indices == sort_unstable(mlxsw_indices(entries, "temp"))
        fan_indices == sort_unstable(mlxsw_indices(entries, "fan"))
        pwm_indices == sort_unstable(mlxsw_indices(entries, "pwm"))
    IN  [thermals |-> reg.thermals \o
            [k \in 1 .. Len(temp_indices) |->
                MlnxThermal_at(S_Thermal \o to_string(temp_indices[k]),
                               hwmon_path, temp_indices[k])],
         fans |-> reg.fans \o
            [k \in 1 .. Len(fan_indices) |->
                MlnxFan_new(S_Fan \o to_string(fan_indices[k]), hwmon_path,
                            fan_indices[k],
                            pwm_at(pwm_indices, k, fan_indices[k]))]]

discover_fans(reg, hwmon_path, entries, name) ==
    LET fan_indices == sort_unstable(input_indices(entries, S_fan))
    IN  [thermals |-> reg.thermals,
         fans |-> reg.fans \o
            [k \in 1 .. Len(fan_indices) |->
                MlnxFan_new(name \o <<" ">> \o S_Fan \o to_string(fan_indices[k]),
                            hwmon_path, fan_indices[k], None)]]

discover_generic_sensors(reg, hwmon_path, entries, name) ==
    LET temp_indices == sort_unstable(input_indices(entries, S_temp))
    IN  [thermals |-> reg.thermals \o
            [k \in 1 .. Len(temp_indices) |->
                MlnxThermal_at(name \o <<" ">> \o S_Thermal \o to_string(temp_indices[k]),
                               hwmon_path, temp_indices[k])],
         fans |-> reg.fans]

\* fs::read_to_string(name_path).map(|s| s.trim().to_string())
read_hwmon_name(dir) == IF dir.name.some THEN Some(trim(dir.name.val)) ELSE NoStr

\* A classification that looks for the fan markers before the ASIC marker.
strategy_fan_first(name) ==
    IF contains(name, S_fan) \/ contains(name, S_cooling) THEN "discover_fans"
    ELSE IF contains(name, S_mlxsw) THEN "discover_mlxsw_sensors"
    ELSE "discover_generic_sensors"

\* The if / else-if / else of process_hwmon_device.
strategy(name) ==
    IF contains(name, S_mlxsw) THEN "discover_mlxsw_sensors"
    ELSE IF contains(name, S_fan) \/ contains(name, S_cooling) THEN "discover_fans"
    ELSE "discover_generic_sensors"

Outcome(dir, ran, ok) == [dir |-> dir, strategy |-> ran, ok |-> ok]

\* One iteration of the loop of discover_hwmon_devices: process_hwmon_device
\* on the next directory, a failure only logged.
process_hwmon_device ==
    /\ cursor <= Len(hwmon)
    /\ LET dir == hwmon[cursor]
           name == read_hwmon_name(dir)
       IN  IF ~name.some
           THEN /\ log' = Append(log, Outcome(cursor, "none", FALSE))
                /\ UNCHANGED registry
           ELSE LET ran == strategy(name.val)
                IN  IF ~dir.listing.some
                    THEN /\ log' = Append(log, Outcome(cursor, ran, FALSE))
                         /\ UNCHANGED registry
                    ELSE /\ log' = Append(log, Outcome(cursor, ran, TRUE))
                         /\ registry' =
                              CASE ran = "discover_mlxsw_sensors" ->
                                     discover_mlxsw_sensors(registry, cursor,
                                                            dir.listing.val)
                                [] ran = "discover_fans" ->
                                     discover_fans(registry, cursor,
                                                   dir.listing.val, name.val)
                                [] ran = "discover_generic_sensors" ->
                                     discover_generic_sensors(registry, cursor,
                                                   dir.listing.val, name.val)
    /\ cursor' = cursor + 1
    /\ UNCHANGED <<hwmon, chassis>>
    /\ UNCHANGED <<statusVars, threadVars, thermalVars, fanVars>>

\* A discovery in which the first failing directory ends with an error.
discover_hwmon_devices_result_propagating(outcomes) ==
    IF \A j \in 1 .. Len(outcomes) : outcomes[j].ok THEN Ok(0) ELSE Err

\* discover_hwmon_devices: the Err of process_hwmon_device is consumed by the
\* warn!, and the function ends with Ok(()) whatever the loop met.
discover_hwmon_devices_result(outcomes) == Ok(0)

Pending == [done |-> FALSE, ok |-> FALSE]

\* The end of the loop: discover_hwmon_devices returns, and MlnxChassis::new
\* passes an Err on (the ?) or returns Ok(chassis).
MlnxChassis_new_return ==
    /\ cursor = Len(hwmon) + 1
    /\ ~chassis.done
    /\ chassis' = [done |-> TRUE, ok |-> discover_hwmon_devices_result(log).ok]
    /\ UNCHANGED <<hwmon, cursor, registry, log>>
    /\ UNCHANGED <<statusVars, threadVars, thermalVars, fanVars>>

\* The directories a chassis may expose.
Dir(name, listing) == [name |-> name, listing |-> listing]

L_asic ==
    Some(<<<<"f", "a", "n", "2", "_", "i", "n", "p", "u", "t">>,
          <<"p", "w", "m", "1">>,
          <<"n", "a", "m", "e">>,
          <<"t", "e", "m", "p", "2", "_", "i", "n", "p", "u", "t">>,
          <<"f", "a", "n", "1", "_", "i", "n", "p", "u", "t">>,
          <<"t", "e", "m", "p", "1", "_", "i", "n", "p", "u", "t">>>>)

L_bank ==
    Some(<<<<"f", "a", "n", "1", "0", "_", "i", "n", "p", "u", "t">>,
          <<"p", "w", "m", "2">>,
          <<"f", "a", "n", "2", "_", "i", "n", "p", "u", "t">>,
          <<"p", "w", "m", "1">>,
          <<"p", "w", "m", "1", "_", "e", "n", "a", "b", "l", "e">>,
          <<"f", "a", "n", "2", "_", "f", "a", "u", "l", "t">>,
          <<"t", "e", "m", "p", "1", "_", "l", "a", "b", "e", "l">>,
          <<"t", "e", "m", "p", "1", "_", "i", "n", "p", "u", "t">>>>)

L_cooler ==
    Some(<<<<"f", "a", "n", "3", "_", "i", "n", "p", "u", "t">>,
          <<"t", "e", "m", "p", "1", "_", "i", "n", "p", "u", "t">>,
          <<"f", "a", "n", "1", "_", "i", "n", "p", "u", "t">>,
          <<"p", "w", "m", "1">>>>)

L_odd ==
    Some(<<<<"f", "a", "n", "_", "i", "n", "p", "u", "t">>,
          <<"f", "a", "n", "x", "_", "i", "n", "p", "u", "t">>,
          <<"p", "w", "m">>,
          <<"t", "e", "m", "p", "1", "_", "m", "a", "x">>,
          <<"f", "a", "n", "7", "_", "i", "n", "p", "u", "t">>,
          <<"p", "w", "m", "4">>,
          <<"t", "e", "m", "p", "e", "r", "a", "t", "u", "r", "e", "_", "i", "n", "p", "u", "t">>>>)

DirPool ==
    { Dir(Some(<<"m", "l", "x", "s", "w", "\n">>), L_asic),
      Dir(Some(<<"m", "l", "x", "s", "w", "_", "f", "a", "n", "\n">>), L_bank),
      Dir(Some(<<"m", "l", "x", "s", "w", "\n">>), L_odd),
      Dir(Some(<<"p", "w", "m", "f", "a", "n", "\n">>), L_bank),
      Dir(Some(<<" ", "c", "o", "o", "l", "i", "n", "g", "_", "d", "e", "v", "i", "c", "e">>), L_cooler),
      Dir(Some(<<"c", "o", "r", "e", "t", "e", "m", "p", "\n">>), L_asic),
      Dir(Some(<<"c", "o", "r", "e", "t", "e", "m", "p", "\n">>), L_cooler),
      Dir(NoStr, L_asic),
      Dir(Some(<<"m", "l", "x", "s", "w", "\n">>), NoStr) }

RECURSIVE SeqsUpTo(_, _)
SeqsUpTo(S, n) ==
    IF n = 0 THEN {<<>>}
    ELSE LET shorter == SeqsUpTo(S, n - 1)
         IN  shorter \cup {Append(q, x) : q \in shorter, x \in S}

\* ------------------------------------------------------------------ MlnxFan

MAX_RPM == 25000
TOLERANCE == 20

\* ((rpm as f32 / MAX_RPM as f32) * 100.0).min(100.0) as u32, for rpm up to
\* 40000: the f32 quotient and product round to the exact percentage except
\* at 13250 and 14750, where the product falls just below the whole number
\* and the cast truncates it.
rpm_to_percentage(rpm) ==
    IF rpm \in {13250, 14750} THEN (rpm * 100) \div MAX_RPM - 1
    ELSE IF rpm >= MAX_RPM THEN 100
    ELSE (rpm * 100) \div MAX_RPM

\* ((pwm as f32 / 255.0) * 100.0) as u32, for pwm in 0 .. 255: the f32 result
\* truncates to the same whole number as the exact quotient.
pwm_to_percentage(pwm) == (pwm * 100) \div 255

\* u32::saturating_sub, u32::saturating_add
saturating_sub(a, b) == IF a < b THEN 0 ELSE a - b

saturating_add(a, b) ==
    IF (a + b) \div Half >= Half THEN Half * Half - 1 ELSE a + b

\* read_sysfs_u32 of an attribute: None when the file cannot be read or parsed
read_sysfs_u32(attr) == IF attr.some THEN Ok(attr.val) ELSE Err

get_speed(files) ==
    LET rpm == read_sysfs_u32(files.input)
    IN  IF rpm.ok THEN Ok(rpm_to_percentage(rpm.val)) ELSE Err

get_target_speed(fan, files) ==
    IF fan.pwm_index.some
    THEN LET pwm == read_sysfs_u32(files.pwm)
         IN  IF pwm.ok THEN Ok(pwm_to_percentage(pwm.val)) ELSE Err
    ELSE get_speed(files)

\* A comparison that also fires on the edge of the band.
UnderSpeed_Inclusive(speed, target) == speed <= saturating_sub(target, TOLERANCE)

UnderSpeed(speed, target) == speed < saturating_sub(target, TOLERANCE)

OverSpeed(speed, target) == speed > saturating_add(target, TOLERANCE)

FanCall(op, pc, ok, speed, target, ret) ==
    [op |-> op, pc |-> pc, ok |-> ok, speed |-> speed, target |-> target,
     ret |-> ret]

NoFanCall == FanCall("none", "idle", FALSE, 0, 0, FALSE)

SpeedPredicates == {"is_under_speed", "is_over_speed"}

\* is_under_speed / is_over_speed up to their first read:
\* let speed = self.get_speed()?;
speed_predicate_get_speed(op) ==
    /\ fcall.pc = "idle"
    /\ LET speed == get_speed(fanhw)
       IN  fcall' = IF speed.ok
                    THEN FanCall(op, "get_target_speed", FALSE, speed.val, 0, FALSE)
                    ELSE FanCall(op, "idle", FALSE, 0, 0, FALSE)
    /\ UNCHANGED <<mfan, fanhw>>
    /\ UNCHANGED <<statusVars, threadVars, thermalVars, chassisVars>>

\* The rest of the call: let target = self.get_target_speed()?; and the
\* comparison it returns.
speed_predicate_get_target_speed ==
    /\ fcall.pc = "get_target_speed"
    /\ LET target == get_target_speed(mfan, fanhw)
       IN  fcall' = IF target.ok
                    THEN FanCall(fcall.op, "idle", TRUE, fcall.speed, target.val,
                                 IF fcall.op = "is_under_speed"
                                 THEN UnderSpeed(fcall.speed, target.val)
                                 ELSE OverSpeed(fcall.speed, target.val))
                    ELSE FanCall(fcall.op, "idle", FALSE, fcall.speed, 0, FALSE)
    /\ UNCHANGED <<mfan, fanhw>>
    /\ UNCHANGED <<statusVars, threadVars, thermalVars, chassisVars>>

\* The driver rewrites fan<N>_input or pwm<N>, at any moment.
fan_hw_update(attr, value) ==
    /\ fanhw' = [fanhw EXCEPT ![attr] = value]
    /\ fanhw' # fanhw
    /\ UNCHANGED <<mfan, fcall>>
    /\ UNCHANGED <<statusVars, threadVars, thermalVars, chassisVars>>

\* fan<N>_input in RPM and pwm<N> in 0 .. 255, or the attribute unreadable.
RpmValues == {0, 2500, 5000, 13250, 20000, 30000}
PwmValues == {0, 25, 128, 255}
FanInputs == {Some(r) : r \in RpmValues} \cup {None}
FanPwms == {Some(w) : w \in PwmValues} \cup {None}

\* ----------------------------------------------------------- specification

FanIdle ==
    /\ mfan = MlnxFan_new(S_Fan \o to_string(1), 1, 1, None)
    /\ fanhw = [input |-> None, pwm |-> None]
    /\ fcall = NoFanCall

StatusInit ==
    /\ fans = [i \in Trackers |-> FanStatus_new]
    /\ BAD_FAN_COUNT = U32(0)
    /\ tstatus = TemperatureStatus_new
    /\ last = NoCall

ThreadInit ==
    thr = [t \in Trackers |-> [pc |-> "idle", presence |-> TRUE, calls |-> 0,
                               down |-> 0, up |-> 0]]

\* temp<N>_input values the hardware reports, in millidegrees.
ThermalMillis == {45230, 40000, -10500}
ThermalAttrs == {Some(m) : m \in ThermalMillis} \cup {None}

ThermalInit ==
    /\ thermal = MlnxThermal_new
    /\ hw \in {[input |-> Some(45230), lowest |-> None, highest |-> None],
                [input |-> Some(45230), lowest |-> Some(20000), highest |-> Some(60000)]}
    /\ reads = <<>>
    /\ tout = Result("none", Err)

ThermalIdle ==
    /\ thermal = MlnxThermal_new
    /\ hw = [input |-> None, lowest |-> None, highest |-> None]
    /\ reads = <<>>
    /\ tout = Result("none", Err)

ChassisIdle ==
    /\ hwmon = <<>>
    /\ cursor = 1
    /\ registry = [fans |-> <<>>, thermals |-> <<>>]
    /\ log = <<>>
    /\ chassis = Pending

Init ==
    /\ StatusInit
    /\ ThreadInit
    /\ ThermalIdle
    /\ ChassisIdle
    /\ FanIdle

\* The control loop polls one fan and one thermal sensor: every setter of the
\* fan's FanStatus and of the thermal's TemperatureStatus, and the reset.
Polled == {1}

FanSetter ==
    \E i \in Polled, v \in BOOLEAN :
        \/ set_presence(i, v)
        \/ set_under_speed(i, v)
        \/ set_over_speed(i, v)
        \/ set_fault_status(i, v)

TemperatureSetter ==
    \/ \E t \in StatusTemps : set_temperature(t)
    \/ \E t \in StatusTemps, th \in StatusThresholds :
          \/ set_over_temperature(t, th)
          \/ set_under_temperature(t, th)

Next ==
    \/ FanSetter
    \/ TemperatureSetter
    \/ reset_fan_counter

Spec == Init /\ [][Next]_vars

\* Any number of trackers: construction, the two counted setters, the reset.
NextFans ==
    \/ \E i \in Trackers : construct(i)
    \/ \E i \in Trackers, v \in BOOLEAN : set_presence(i, v)
    \/ \E i \in Trackers, v \in BOOLEAN : set_fault_status(i, v)
    \/ reset_fan_counter

SpecFans == Init /\ [][NextFans]_vars

\* Fresh trackers, counter 0, and only the two counted setters.
NextFresh ==
    \/ \E i \in Trackers, v \in BOOLEAN : set_presence(i, v)
    \/ \E i \in Trackers, v \in BOOLEAN : set_fault_status(i, v)

SpecFresh == Init /\ [][NextFresh]_vars

\* One thread per tracker, each making set_presence calls, interleaved.
NextThreads ==
    \/ \E t \in Trackers, v \in BOOLEAN : set_presence_enter(t, v)
    \/ \E t \in Trackers : set_presence_compare(t)
    \/ \E t \in Trackers : set_presence_count(t)
    \/ \E t \in Trackers : set_presence_store(t)

SpecThreads == Init /\ [][NextThreads]_vars

\* One MlnxThermal polled while the hardware changes its reading.
InitThermal ==
    /\ StatusInit
    /\ ThreadInit
    /\ ThermalInit
    /\ ChassisIdle
    /\ FanIdle

NextThermal ==
    \/ get_temperature
    \/ get_minimum_recorded
    \/ get_maximum_recorded
    \/ \E attr \in ThermalAttrs : hw_update(attr)

SpecThermal == InitThermal /\ [][NextThermal]_vars

\* MlnxChassis::new over any hwmon tree of at most MaxDirs directories.
InitChassis ==
    /\ StatusInit
    /\ ThreadInit
    /\ ThermalIdle
    /\ hwmon \in SeqsUpTo(DirPool, MaxDirs)
    /\ cursor = 1
    /\ registry = [fans |-> <<>>, thermals |-> <<>>]
    /\ log = <<>>
    /\ chassis = Pending
    /\ FanIdle

NextChassis ==
    \/ process_hwmon_device
    \/ MlnxChassis_new_return

SpecChassis == InitChassis /\ [][NextChassis]_vars

\* One MlnxFan, with or without a pwm pairing, asked for its speed predicates
\* while the driver rewrites its attributes.
InitFan ==
    /\ StatusInit
    /\ ThreadInit
    /\ ThermalIdle
    /\ ChassisIdle
    /\ mfan \in {MlnxFan_new(S_Fan \o to_string(1), 1, 1, Some(1)),
                 MlnxFan_new(S_Fan \o to_string(2), 1, 2, None)}
    /\ fanhw = [input |-> Some(5000), pwm |-> Some(128)]
    /\ fcall = NoFanCall

NextFan ==
    \/ \E op \in SpeedPredicates : speed_predicate_get_speed(op)
    \/ speed_predicate_get_target_speed
    \/ \E value \in FanInputs : fan_hw_update("input", value)
    \/ \E value \in FanPwms : fan_hw_update("pwm", value)

SpecFan == InitFan /\ [][NextFan]_vars

\* ------------------------------------------------------------------ claims

FanFlagOps ==
    {"set_presence", "set_under_speed", "set_over_speed", "set_fault_status"}

ThresholdOps == {"set_over_temperature", "set_under_temperature"}

\* The flag of FanStatus record f that setter op writes.
FlagOf(f, op) ==
    CASE op = "set_presence" -> f.presence
      [] op = "set_under_speed" -> f.under_speed
      [] op = "set_over_speed" -> f.over_speed
      [] op = "set_fault_status" -> f.fault_status

\* The flag of TemperatureStatus record s that setter op writes, and the
\* comparison the setter makes.
ThresholdFlagOf(s, op) ==
    IF op = "set_over_temperature" THEN s.over_temperature
                                   ELSE s.under_temperature

Comparison(op, t, th) ==
    IF op = "set_over_temperature" THEN t > th ELSE t < th

\* d = c + 1 and d = c - 1 as natural numbers (no wrap-around).
IsSucc(c, d) ==
    \/ c.lo < Half - 1 /\ d = [hi |-> c.hi, lo |-> c.lo + 1]
    \/ c.lo = Half - 1 /\ c.hi < Half - 1 /\ d = [hi |-> c.hi + 1, lo |-> 0]

IsPred(c, d) == IsSucc(d, c)

\* A grid distance of more than / at least 0.1 degrees C (exact arithmetic; the
\* first disjunct keeps 10 * d within range).
MoreThanTenth(d) == d >= F32One \/ 10 * d > F32One
AtLeastTenth(d) == d >= F32One \/ 10 * d >= F32One

\* C1: every call on a tracker changes the bad-fan counter by exactly +1 when
\* set_presence / set_fault_status moves its flag from true to false, by
\* exactly -1 when it moves the flag from false to true, and not at all
\* otherwise (a call returning false, the speed setters, the temperature
\* setters).
C1_CounterFrame ==
    [][LET c == last'
       IN  c.op \in FanFlagOps \cup ThresholdOps \cup {"set_temperature"} =>
             IF c.op \in {"set_presence", "set_fault_status"} /\ c.ret
             THEN IF ~c.flag THEN IsSucc(BAD_FAN_COUNT, BAD_FAN_COUNT')
                             ELSE IsPred(BAD_FAN_COUNT, BAD_FAN_COUNT')
             ELSE BAD_FAN_COUNT' = BAD_FAN_COUNT]_vars

\* C2: whatever sequence of FanStatus::new, set_presence, set_fault_status and
\* reset_fan_counter calls is made, the counter is never negative: no
\* decrement is applied at 0, so the u32 never wraps around to 2^32-1 (its top
\* bit stays clear, the bounded runs making far fewer than 2^31 increments).
C2_NeverNegative ==
    /\ BAD_FAN_COUNT.hi < Half \div 2
    /\ BAD_FAN_COUNT # fetch_sub(U32(0), 1)

RECURSIVE SumOver(_, _)
SumOver(f, S) ==
    IF S = {} THEN 0
    ELSE LET x == CHOOSE y \in S : TRUE IN f[x] + SumOver(f, S \ {x})

\* Trackers whose device is faulted, and the false flags they hold.
FaultedDevices == {i \in Trackers : ~fans[i].presence \/ ~fans[i].fault_status}

FalseFlags ==
    SumOver([i \in Trackers |-> (IF fans[i].presence THEN 0 ELSE 1)
                                + (IF fans[i].fault_status THEN 0 ELSE 1)],
            Trackers)

\* C3: from fresh trackers and counter 0, with no reset, after any sequence
\* of set_presence and set_fault_status calls the count equals the number of
\* faulted devices (presence false or fault_status false), each counted once.
\* (The code keeps it equal to FalseFlags instead.)
C3_CountsFaultedDevices ==
    get_bad_fan_count = U32(Cardinality(FaultedDevices))

Quiescent == \A t \in Trackers : thr[t].pc = "idle"

\* C4: when every thread has returned from its calls, under every
\* interleaving, the count equals the healthy-to-unhealthy transitions minus
\* the unhealthy-to-healthy transitions of all trackers, which is what the
\* sequential execution leaves: the number of trackers now absent.
C4_NoLostUpdate ==
    Quiescent =>
        /\ get_bad_fan_count =
              U32(SumOver([t \in Trackers |-> thr[t].down - thr[t].up], Trackers))
        /\ get_bad_fan_count =
              U32(Cardinality({t \in Trackers : ~fans[t].presence}))

\* Every thread has made all its calls, tracker 1 went down and came back,
\* tracker 2 went down, came back and went down again.
C4_Witness ==
    /\ Quiescent
    /\ \A t \in Trackers : thr[t].calls = MaxCalls
    /\ thr[1].down = 1 /\ thr[1].up = 1
    /\ thr[2].down = 2 /\ thr[2].up = 1
    /\ get_bad_fan_count = U32(1)

RECURSIVE MinOf(_)
MinOf(q) ==
    IF Len(q) = 1 THEN q[1]
    ELSE LET m == MinOf(Tail(q)) IN IF q[1] < m THEN q[1] ELSE m

RECURSIVE MaxOf(_)
MaxOf(q) ==
    IF Len(q) = 1 THEN q[1]
    ELSE LET m == MaxOf(Tail(q)) IN IF q[1] > m THEN q[1] ELSE m

\* C8: when the hardware exposes neither temp<N>_lowest nor temp<N>_highest,
\* after successful get_temperature reads t1..tn (n >= 1) get_minimum_recorded
\* returns min(t1..tn) and get_maximum_recorded returns max(t1..tn); the
\* +1000 / -1000 seeds are returned only before the first read.
C8_RunningMinMax ==
    (~hw.lowest.some /\ ~hw.highest.some /\ Len(reads) > 0) =>
        /\ tout.op = "get_minimum_recorded" =>
              tout.ok /\ tout.val = MinOf(reads) /\ tout.val # 1000 * F32One
        /\ tout.op = "get_maximum_recorded" =>
              tout.ok /\ tout.val = MaxOf(reads) /\ tout.val # -1000 * F32One

Handled(k) == k < cursor

Files(k) == {hwmon[k].listing.val[j] : j \in 1 .. Len(hwmon[k].listing.val)}

\* The channel numbers N for which fan<N>_input, pwm<N>, temp<N>_input exist.
FanChannels(k) ==
    {n \in 0 .. MaxIndex : S_fan \o to_string(n) \o S_input \in Files(k)}

PwmChannels(k) == {n \in 0 .. MaxIndex : S_pwm \o to_string(n) \in Files(k)}

TempChannels(k) ==
    {n \in 0 .. MaxIndex : S_temp \o to_string(n) \o S_input \in Files(k)}

\* The i-th smallest member of a set of numbers.
Nth(S, i) == CHOOSE x \in S : Cardinality({y \in S : y < x}) = i - 1

FansOf(k) == SelectSeq(registry.fans, LAMBDA f : f.hwmon_path = k)

ThermalsOf(k) == SelectSeq(registry.thermals, LAMBDA t : t.hwmon_path = k)

HasMarker(k, marker) == hwmon[k].name.some /\ contains(hwmon[k].name.val, marker)

\* C9: for a directory whose name contains "mlxsw" (and that can be listed),
\* discovery builds exactly one Fan per fan<N>_input file, in ascending order
\* of N, the i-th of them paired with the i-th smallest pwm<N> when at least
\* i pwm channels exist and unpaired otherwise.
C9_FanPwmPairing ==
    \A k \in 1 .. Len(hwmon) :
        (Handled(k) /\ HasMarker(k, S_mlxsw) /\ hwmon[k].listing.some) =>
            LET built == FansOf(k)
                F == FanChannels(k)
                P == PwmChannels(k)
            IN  /\ Len(built) = Cardinality(F)
                /\ \A i \in 1 .. Len(built) :
                      /\ built[i].fan_index = Nth(F, i)
                      /\ built[i].pwm_index =
                            IF i <= Cardinality(P) THEN Some(Nth(P, i)) ELSE None

\* The example of the specification: fan1, fan2 and only pwm1.
C9_Witness ==
    \E k \in 1 .. Len(hwmon) :
        /\ Handled(k) /\ HasMarker(k, S_mlxsw) /\ hwmon[k].listing.some
        /\ Len(FansOf(k)) = 2
        /\ FansOf(k)[1].fan_index = 1 /\ FansOf(k)[1].pwm_index = Some(1)
        /\ FansOf(k)[2].fan_index = 2 /\ FansOf(k)[2].pwm_index = None

\* The strategy the priority order gives a name.
Expected(k) ==
    IF HasMarker(k, S_mlxsw) THEN "discover_mlxsw_sensors"
    ELSE IF HasMarker(k, S_fan) \/ HasMarker(k, S_cooling) THEN "discover_fans"
    ELSE "discover_generic_sensors"

\* C10: for every directory whose name can be read exactly one strategy runs,
\* the first that matches in the order "mlxsw" (Thermals and Fans), then "fan"
\* or "cooling" (Fans only), then generic (Thermals only); a name with both
\* markers is handled by the combined strategy only, and no channel of the
\* directory yields more than one sensor in the registry.
C10_FirstMatchWins ==
    /\ Len(log) = cursor - 1
    /\ \A k \in 1 .. Len(hwmon) :
        (Handled(k) /\ hwmon[k].name.some) =>
            /\ log[k].dir = k
            /\ log[k].strategy = Expected(k)
            /\ log[k].ok = hwmon[k].listing.some
            /\ log[k].ok =>
                  /\ Len(FansOf(k)) =
                        IF log[k].strategy = "discover_generic_sensors"
                        THEN 0 ELSE Cardinality(FanChannels(k))
                  /\ Len(ThermalsOf(k)) =
                        IF log[k].strategy = "discover_fans"
                        THEN 0 ELSE Cardinality(TempChannels(k))
            /\ \A n \in 0 .. MaxIndex :
                  /\ Len(SelectSeq(FansOf(k), LAMBDA f : f.fan_index = n)) <= 1
                  /\ Len(SelectSeq(ThermalsOf(k), LAMBDA t : t.temp_index = n)) <= 1

\* A directory named with both the ASIC and the fan marker went through the
\* combined strategy and contributed Thermals as well as Fans.
C10_Witness ==
    \E k \in 1 .. Len(hwmon) :
        /\ Handled(k) /\ HasMarker(k, S_mlxsw) /\ HasMarker(k, S_fan)
        /\ log[k].strategy = "discover_mlxsw_sensors"
        /\ Len(ThermalsOf(k)) > 0
        /\ Len(FansOf(k)) > 0

\* C5 as stated: every flag setter returns true exactly when the value differs
\* from the stored flag and stores the value; for the threshold setters this is
\* claimed for all arguments other than the sentinel -999 itself.
C5_ChangedIffDiffers_Original ==
    [][LET c == last'
       IN  /\ c.op \in FanFlagOps =>
                /\ c.ret = (FlagOf(fans[c.id], c.op) # c.flag)
                /\ FlagOf(fans'[c.id], c.op) = c.flag
           /\ (/\ c.op \in ThresholdOps
               /\ c.temperature # NOT_AVAILABLE
               /\ c.threshold # NOT_AVAILABLE) =>
                LET v == Comparison(c.op, c.temperature, c.threshold)
                IN  /\ c.ret = (ThresholdFlagOf(tstatus, c.op) # v)
                    /\ ThresholdFlagOf(tstatus', c.op) = v]_vars

\* C5 (amended): every flag setter returns true exactly when the value v
\* differs from the stored flag, and afterwards the stored flag equals v; for
\* the threshold setters v is the comparison of arguments that each differ
\* from -999 by at least 0.1.  Hence a changed signal fires exactly once per
\* flag transition, and the same call made twice in succession returns false
\* the second time.
C5_ChangedIffDiffers ==
    [][LET c == last'
       IN  /\ c.op \in FanFlagOps =>
                /\ c.ret = (FlagOf(fans[c.id], c.op) # c.flag)
                /\ FlagOf(fans'[c.id], c.op) = c.flag
                /\ c.ret = (FlagOf(fans'[c.id], c.op) # FlagOf(fans[c.id], c.op))
           /\ (/\ c.op \in ThresholdOps
               /\ AtLeastTenth(Abs(c.temperature - NOT_AVAILABLE))
               /\ AtLeastTenth(Abs(c.threshold - NOT_AVAILABLE))) =>
                LET v == Comparison(c.op, c.temperature, c.threshold)
                IN  /\ c.ret = (ThresholdFlagOf(tstatus, c.op) # v)
                    /\ ThresholdFlagOf(tstatus', c.op) = v
           /\ c.op \in ThresholdOps =>
                c.ret = (ThresholdFlagOf(tstatus', c.op) # ThresholdFlagOf(tstatus, c.op))
           /\ (/\ c.op \in FanFlagOps \cup ThresholdOps
               /\ [c EXCEPT !.ret = FALSE] = [last EXCEPT !.ret = FALSE]) =>
                ~c.ret]_vars

\* A threshold setter has just reported a change and raised its flag.
C5_Witness ==
    /\ last.op = "set_over_temperature"
    /\ last.ret
    /\ tstatus.over_temperature
    /\ fans[1].under_speed

\* C6: a threshold setter called with the temperature or the threshold equal
\* to the sentinel -999 returns false and leaves the whole TemperatureStatus
\* unchanged, whatever the other argument and the current flags.
C6_SentinelSuppression ==
    [][LET c == last'
       IN  (/\ c.op \in ThresholdOps
            /\ (c.temperature = NOT_AVAILABLE \/ c.threshold = NOT_AVAILABLE)) =>
               (~c.ret /\ tstatus' = tstatus)]_vars

\* The threshold was the sentinel, the reading was not, and the flag that a
\* comparison would have cleared is still raised.
C6_Witness ==
    /\ last.op = "set_under_temperature"
    /\ last.threshold = NOT_AVAILABLE
    /\ last.temperature # NOT_AVAILABLE
    /\ ~last.ret
    /\ tstatus.under_temperature

\* C7: set_temperature returns true exactly when no reading is stored yet or
\* the new reading differs from the stored one by more than 0.1 degrees C;
\* the 10 degree warning does not alter the result, and the over/under flags
\* are not modified.
C7_TemperatureDeadband ==
    [][LET c == last'
       IN  c.op = "set_temperature" =>
             /\ c.ret = (\/ ~tstatus.temperature.some
                         \/ MoreThanTenth(Abs(c.temperature - tstatus.temperature.val)))
             /\ tstatus'.temperature = Some(c.temperature)
             /\ tstatus'.over_temperature = tstatus.over_temperature
             /\ tstatus'.under_temperature = tstatus.under_temperature]_vars

\* A reading more than 10 degrees away from the previous one was reported as
\* changed, with the warning, while a flag was raised.
C7_Witness ==
    /\ last.op = "set_temperature"
    /\ last.warned
    /\ last.ret
    /\ tstatus.over_temperature


\* The channel numbers of the Fans and Thermals a directory contributed.
FanIndicesOf(k) == {FansOf(k)[i].fan_index : i \in 1 .. Len(FansOf(k))}

ThermalIndicesOf(k) == {ThermalsOf(k)[i].temp_index : i \in 1 .. Len(ThermalsOf(k))}

\* A directory fails when its name attribute cannot be read or it cannot be
\* listed.
Failing(k) == ~hwmon[k].name.some \/ ~hwmon[k].listing.some

\* C11: whatever subset of the hwmon directories fails to process, discovery
\* returns success having scanned every directory, and the registry holds
\* every sensor of every directory that did not fail, wherever the failing
\* ones stand in the scan; when every directory fails or there is none, the
\* result is an empty registry and still success.
C11_FailuresDoNotAbort ==
    chassis.done =>
        /\ chassis.ok
        /\ cursor = Len(hwmon) + 1
        /\ \A k \in 1 .. Len(hwmon) :
              ~Failing(k) =>
                  /\ FanIndicesOf(k) =
                        IF Expected(k) = "discover_generic_sensors"
                        THEN {} ELSE FanChannels(k)
                  /\ ThermalIndicesOf(k) =
                        IF Expected(k) = "discover_fans"
                        THEN {} ELSE TempChannels(k)
        /\ (\A k \in 1 .. Len(hwmon) : Failing(k)) =>
              registry = [fans |-> <<>>, thermals |-> <<>>]

\* Discovery has returned after a directory that could not be processed was
\* followed by one that could, and the sensors of the second are registered.
C11_Witness ==
    /\ chassis.done
    /\ Len(hwmon) = 2
    /\ Failing(1)
    /\ ~Failing(2)
    /\ Len(FansOf(2)) > 0
    /\ Len(ThermalsOf(2)) > 0

Percent == 0 .. 100

Max(a, b) == IF a >= b THEN a ELSE b

\* C12: for a current speed and a target speed in 0 .. 100 read in one
\* evaluation, is_under_speed returns true exactly when
\* current < max(target - 20, 0) and is_over_speed exactly when
\* current > target + 20; a target below 20 never makes the fan under-speed,
\* and the two predicates are never both true of the same pair.
C12_SpeedBand ==
    (fcall.pc = "idle" /\ fcall.ok /\ fcall.speed \in Percent
                       /\ fcall.target \in Percent) =>
        LET under == fcall.speed < Max(fcall.target - 20, 0)
            over == fcall.speed > fcall.target + 20
        IN  /\ fcall.op = "is_under_speed" => fcall.ret = under
            /\ fcall.op = "is_over_speed" => fcall.ret = over
            /\ (fcall.op = "is_under_speed" /\ fcall.target < 20) => ~fcall.ret
            /\ ~(UnderSpeed(fcall.speed, fcall.target)
                 /\ OverSpeed(fcall.speed, fcall.target))

\* is_under_speed was evaluated with a target between 1 and 19, where a
\* wrapping subtraction would have produced a huge bound.
C12_Witness ==
    /\ fcall.op = "is_under_speed"
    /\ fcall.pc = "idle"
    /\ fcall.ok
    /\ fcall.target \in 1 .. 19
    /\ fcall.speed > 0
    /\ ~fcall.ret

\* C13: for a Fan with no pwm pairing, the target value an evaluation of
\* is_under_speed or is_over_speed uses equals the current-speed value it
\* uses, so both predicates return false, whatever values fan<N>_input takes
\* and whenever the hardware changes it.
C13_TargetIsCurrent ==
    (~mfan.pwm_index.some /\ fcall.pc = "idle" /\ fcall.ok) =>
        /\ fcall.target = fcall.speed
        /\ ~fcall.ret

====
